---- MODULE Spec2Model ----
(***************************************************************************)
(* Model of the environmental-safety and production-target scheduler       *)
(* (backend/app/scheduler.py, class SchedulerManager) composed with the    *)
(* callback that executes its actions (backend/app/main.py,                *)
(* execute_schedule_action) and with the manual control endpoint           *)
(* (backend/app/main.py, send_control).                                    *)
(*                                                                         *)
(* Time is the value time.time() returns; every operation runs at the      *)
(* instant `now`, and Tick lets the clock advance between operations.      *)
(* Floats are modelled by integers: the code only compares, appends and    *)
(* copies them.                                                            *)
(*                                                                         *)
(* A Python dict keyed by device id is a function over Devices; a key that *)
(* is absent holds the value init_device would install, and `inited` is    *)
(* the key set of self.rules.  An Optional[Dict] return value is a         *)
(* sequence of length 0 (None) or 1.                                       *)
(***************************************************************************)
EXTENDS Integers, Sequences, FiniteSets, TLC

\* ------------------------------------------------------------------ bounds
StartTime == 20        \* time.time() when the first operation runs
TickStep == 5          \* seconds the clock advances in one Tick
MaxTicks == 2          \* number of Tick steps in a behaviour
MaxReadings == 4       \* readings held by the three histories of a device together
MaxConfig == 1         \* number of update_rule / update_thresholds calls
MaxProd == 4           \* number of plan / check_production calls
MaxConfigReadings == 2 \* readings held by the histories of a device while it is reconfigured
MaxFleetReadings == 1  \* readings held by the histories of a device of the fleet of two

\* ------------------------------------------------------- program constants
HistoryMaxLen == 5
RequiredCount == 3
EnvCooldown == 10
ProductionCooldown == 5
TempMinDefault == 10
TempMaxDefault == 35
HumidityMinDefault == 20
HumidityMaxDefault == 80
PressureMinDefault == 90
PressureMaxDefault == 110

Devices == {"device_001", "device_002"}

\* The coroutines that call the scheduler: the handlers of two device
\* sockets (websocket_device).
Tasks == {"socket_1", "socket_2"}
Metrics == {"temperature", "humidity", "pressure"}

MinKey == [temperature |-> "tempMin", humidity |-> "humidityMin", pressure |-> "pressureMin"]
MaxKey == [temperature |-> "tempMax", humidity |-> "humidityMax", pressure |-> "pressureMax"]
MinDefault == [temperature |-> TempMinDefault, humidity |-> HumidityMinDefault,
               pressure |-> PressureMinDefault]
MaxDefault == [temperature |-> TempMaxDefault, humidity |-> HumidityMaxDefault,
               pressure |-> PressureMaxDefault]
PauseRuleId == [temperature |-> "temp_danger_pause", humidity |-> "humidity_danger_pause",
                pressure |-> "pressure_danger_pause"]

\* ScheduleRule: the fields the scheduler reads or writes.
ScheduleRule(id, mn, mx, act, cd) ==
    [id |-> id, enabled |-> TRUE, threshold_min |-> mn, threshold_max |-> mx,
     action |-> act, cooldown |-> cd, last_triggered |-> 0]

\* The rule list init_device installs, in list order.
DefaultRules ==
    << ScheduleRule("temp_danger_pause", TempMinDefault, TempMaxDefault, "pause", EnvCooldown),
       ScheduleRule("humidity_danger_pause", HumidityMinDefault, HumidityMaxDefault, "pause", EnvCooldown),
       ScheduleRule("pressure_danger_pause", PressureMinDefault, PressureMaxDefault, "pause", EnvCooldown),
       ScheduleRule("production_complete", 0, 0, "stop", ProductionCooldown),
       ScheduleRule("all_normal_start", 0, 0, "start", EnvCooldown) >>

DefaultThresholds ==
    [k \in {"tempMin", "tempMax", "humidityMin", "humidityMax", "pressureMin", "pressureMax"} |->
        CASE k = "tempMin" -> TempMinDefault
          [] k = "tempMax" -> TempMaxDefault
          [] k = "humidityMin" -> HumidityMinDefault
          [] k = "humidityMax" -> HumidityMaxDefault
          [] k = "pressureMin" -> PressureMinDefault
          [] OTHER -> PressureMaxDefault]

\* ------------------------------------------------------------ inputs drawn
\* Readings fed to the check calls: one inside and one outside the default
\* range for temperature and humidity, one inside it for pressure, whose
\* check has the same shape as the other two.  Temperature 40 is inside the
\* widened range below.
Readings == [temperature |-> {20, 40}, humidity |-> {50, 90}, pressure |-> {100}]

\* Threshold dicts passed to update_thresholds: one that only carries the
\* temperature keys and widens the temperature range.
ThresholdInputs ==
    { [k \in {"tempMin", "tempMax"} |-> IF k = "tempMin" THEN 10 ELSE 45] }

\* (rule_id, keyword arguments) passed to update_rule.
RulePatchInputs ==
    { << "temp_danger_pause", [last_triggered |-> 0] >>,
      << "all_normal_start", [enabled |-> FALSE] >> }

\* Threshold dicts and update_rule arguments of the configuration endpoints:
\* dicts that carry only some keys; a rule id no device has, a bound, the
\* timestamp, the id itself and a key ScheduleRule does not have.
ConfigThresholdInputs ==
    ThresholdInputs \cup { [k \in {"humidityMax"} |-> 95] }

ConfigPatchInputs ==
    { << "no_such_rule", [enabled |-> FALSE] >>,
      << "temp_danger_pause", [threshold_max |-> 45] >>,
      << "temp_danger_pause", [last_triggered |-> 0] >>,
      << "pressure_danger_pause", [id |-> "renamed"] >>,
      << "all_normal_start", [colour |-> "red"] >> }

\* update_rule arguments that switch the temperature pause rule off and on.
GatePatchInputs ==
    { << "temp_danger_pause", [enabled |-> FALSE] >>,
      << "temp_danger_pause", [enabled |-> TRUE] >> }

\* Readings of the sensors that keep reporting: temperature inside and
\* outside its range, humidity inside it.
RecoverReadings == [temperature |-> {20, 40}, humidity |-> {50}]

\* Commands POSTed to /api/control.
Commands == {"start", "stop", "pause", "switch_mode", "reset_count"}

\* Temperature readings the device socket reports.
ControlReadings == {20, 40}

\* Arguments of set_production_plan and get_plan_progress: targets that make
\* no plan and one that does not divide 100; counts below, between, at and
\* above the target, and one a PUT of /api/status/{device_id} can leave
\* below zero.
ProgressTargets == {-1, 0, 3}
ProgressCounts == {-1, 0, 1, 2, 3, 4}

\* Arguments of set_production_plan and check_production.
TargetInputs == {0, 2}
CountInputs == {1, 2, 3}
ModeInputs == {"", "product_b"}

\* (rule_id, keyword arguments) passed to update_rule for the production rule.
ProdPatchInputs ==
    { << "production_complete", [enabled |-> TRUE] >>,
      << "production_complete", [enabled |-> FALSE] >>,
      << "production_complete", [last_triggered |-> 0] >> }

\* ------------------------------------------------------------------- state
VARIABLES
    now,                  \* time.time()
    inited,               \* keys of self.rules
    rules,                \* self.rules
    thresholds,           \* self.thresholds
    plans,                \* self.plans ( <<>> = no entry, <<plan>> = entry )
    paused_by_scheduler,  \* self.paused_by_scheduler
    pause_reasons,        \* self.pause_reasons
    out_of_range,         \* self.temp/humidity/pressure_out_of_range
    history,              \* self.temp/humidity/pressure_history
    status,               \* ProductionStatus.status row of the device ("none" = no row)
    mode,                 \* ProductionStatus.mode
    ret,                  \* Optional[Dict] returned by the operation of the step just taken
    ret_ok,               \* bool returned by it ( <<>> = none )
    ret_info,             \* dict or list returned by a query ( <<>> = none )
    raised,               \* exception that left the operation ("" = none)
    awaiting,             \* per task: the check call suspended in "await self.action_callback"
    cb,                   \* callback invocations it made
    fired_at,             \* history: when the callback was last invoked per rule slot
    last_fired,           \* history: the last check of the metric emitted its pause
    checked,              \* history: the step just taken was a sensor check of the device
    status_by,            \* history: who wrote ProductionStatus.status last
    manual,               \* history: "halted" after a manual stop/pause, "cleared" once
                          \*          clear_scheduler_pause followed it, "none" after a manual start
    called,               \* history: the operation of the step just taken ("" = the clock)
    plan_fired,           \* history: check_production emitted an action since the plan was set
    used                  \* operations performed so far, per class

vars == << now, inited, rules, thresholds, plans, paused_by_scheduler, pause_reasons,
           out_of_range, history, status, mode, ret, ret_ok, ret_info, raised, awaiting, cb, fired_at,
           last_fired, checked, status_by, manual, called, plan_fired, used >>

\* ----------------------------------------------------------------- helpers
Get(dict, key, dflt) == IF key \in DOMAIN dict THEN dict[key] ELSE dflt

\* init_device without its "if device_id in self.rules: return"
RulesOf_Reinstall(d) == DefaultRules

\* self.rules[device_id] after init_device(device_id)
RulesOf(d) == IF d \in inited THEN rules[d] ELSE DefaultRules

\* _get_rule falling back on the first rule of the list
GetRule_FirstIfMissing(rs, rule_id) ==
    IF \E i \in 1..Len(rs) : rs[i].id = rule_id
    THEN CHOOSE i \in 1..Len(rs) : rs[i].id = rule_id /\ \A j \in 1..(i-1) : rs[j].id # rule_id
    ELSE 1

\* _get_rule: index of the first rule of the list with that id, 0 for None
GetRule(rs, rule_id) ==
    IF \E i \in 1..Len(rs) : rs[i].id = rule_id
    THEN CHOOSE i \in 1..Len(rs) : rs[i].id = rule_id /\ \A j \in 1..(i-1) : rs[j].id # rule_id
    ELSE 0

IsOutOfRange(value, min_val, max_val) == value < min_val \/ value > max_val

\* _add_history with pop() for pop(0): the newest reading is evicted
AddHistory_PopNewest(history_list, value) ==
    LET appended == Append(history_list, value)
    IN IF Len(appended) > HistoryMaxLen THEN SubSeq(appended, 1, Len(appended) - 1) ELSE appended

\* _add_history: append, then drop the oldest reading past max_len
AddHistory(history_list, value) ==
    LET appended == Append(history_list, value)
    IN IF Len(appended) > HistoryMaxLen THEN Tail(appended) ELSE appended

IsStableNormal_ShortIsStable(hist, min_val, max_val) ==
    IF Len(hist) < RequiredCount THEN TRUE
    ELSE \A k \in (Len(hist) - RequiredCount + 1)..Len(hist) :
            min_val <= hist[k] /\ hist[k] <= max_val

IsStableNormal_WholeHistory(hist, min_val, max_val) ==
    IF Len(hist) < RequiredCount THEN FALSE
    ELSE \A k \in 1..Len(hist) : min_val <= hist[k] /\ hist[k] <= max_val

IsStableNormal_LatestOnly(hist, min_val, max_val) ==
    IF Len(hist) < RequiredCount THEN FALSE
    ELSE min_val <= hist[Len(hist)] /\ hist[Len(hist)] <= max_val

IsStableNormal(hist, min_val, max_val) ==
    IF Len(hist) < RequiredCount THEN FALSE
    ELSE \A k \in (Len(hist) - RequiredCount + 1)..Len(hist) :
            min_val <= hist[k] /\ hist[k] <= max_val

\* "if not rule or not rule.enabled" is false
RuleActive_IgnoreEnabled(rs, i) == i # 0

RuleActive(rs, i) == i # 0 /\ rs[i].enabled

\* "current_time - rule.last_triggered < rule.cooldown" is false
CooldownElapsed(rule, current_time) ==
    ~(current_time - rule.last_triggered < rule.cooldown)

\* "is_out and not was_out"
RisingEdge_Level(is_out, was_out) == is_out

RisingEdge(is_out, was_out) == is_out /\ ~was_out

\* "if not self.paused_by_scheduler.get(device_id, False): return None"
ResumeGate_Open(d) == TRUE

ResumeGate(d) == paused_by_scheduler[d]

AnyOutOfRange(flags) ==
    flags["temperature"] \/ flags["humidity"] \/ flags["pressure"]


\* ------------------------------------------------------- scheduler actions
\* The dict a check call returns and hands to the callback.
PauseAction(rule, reason, param_type) ==
    [rule_id |-> rule.id, action |-> rule.action, params |-> "", reason |-> reason,
     param_type |-> param_type]

StartAction(rule) ==
    [rule_id |-> rule.id, action |-> rule.action, params |-> "",
     reason |-> <<"all_normal">>, param_type |-> ""]

\* The reason string of a pause: the metric, the value and the bounds it names.
Reason(m, value, min_val, max_val) == << m, value, min_val, max_val >>

TriggerPause_NoReason(d, rs, i, reason, param_type) ==
    [rules   |-> rs,
     paused  |-> TRUE,
     reasons |-> pause_reasons[d],
     action  |-> << PauseAction(rs[i], reason, param_type) >>,
     slot    |-> i]

TriggerPause_AlwaysAppend(d, rs, i, reason, param_type) ==
    [rules   |-> rs,
     paused  |-> TRUE,
     reasons |-> Append(pause_reasons[d], reason),
     action  |-> << PauseAction(rs[i], reason, param_type) >>,
     slot    |-> i]

\* _trigger_pause, entered with rule.last_triggered already stamped.
TriggerPause(d, rs, i, reason, param_type) ==
    [rules   |-> rs,
     paused  |-> TRUE,
     reasons |-> IF \E k \in 1..Len(pause_reasons[d]) : pause_reasons[d][k] = reason
                 THEN pause_reasons[d] ELSE Append(pause_reasons[d], reason),
     action  |-> << PauseAction(rs[i], reason, param_type) >>,
     slot    |-> i]

\* The outcome of a call that changes nothing and returns None.
Nothing(d, rs) ==
    [rules |-> rs, paused |-> paused_by_scheduler[d], reasons |-> pause_reasons[d],
     action |-> << >>, slot |-> 0]

\* _check_all_normal, evaluated on the flags and histories the calling check
\* has already updated.
CheckAllNormal(d, rs, flags, hists) ==
    LET i  == GetRule(rs, "all_normal_start")
        th == thresholds[d]
        stable(m) == IsStableNormal(hists[m], Get(th, MinKey[m], MinDefault[m]),
                                    Get(th, MaxKey[m], MaxDefault[m]))
                     \/ Len(hists[m]) = 0
    IN  IF ~ResumeGate(d) THEN Nothing(d, rs)
        ELSE IF ~RuleActive(rs, i) THEN Nothing(d, rs)
        ELSE IF ~CooldownElapsed(rs[i], now) THEN Nothing(d, rs)
        ELSE IF AnyOutOfRange(flags) THEN Nothing(d, rs)
        ELSE IF ~(stable("temperature") /\ stable("humidity") /\ stable("pressure"))
             THEN Nothing(d, rs)
        ELSE [rules   |-> [rs EXCEPT ![i].last_triggered = now],
              paused  |-> FALSE,
              reasons |-> << >>,
              action  |-> << StartAction(rs[i]) >>,
              slot    |-> i]

\* check_temperature / check_humidity / check_pressure: the three methods are
\* the same code over the metric's own history, flag, threshold keys and rule.
CheckMetric(d, m, value) ==
    LET rs      == RulesOf(d)
        hists   == [history[d] EXCEPT ![m] = AddHistory(history[d][m], value)]
        th      == thresholds[d]
        min_val == Get(th, MinKey[m], MinDefault[m])
        max_val == Get(th, MaxKey[m], MaxDefault[m])
        is_out  == IsOutOfRange(value, min_val, max_val)
        was_out == out_of_range[d][m]
        flags   == [out_of_range[d] EXCEPT ![m] = is_out]
        i       == GetRule(rs, PauseRuleId[m])
        out     == IF ~RuleActive(rs, i) THEN CheckAllNormal(d, rs, flags, hists)
                   ELSE IF ~CooldownElapsed(rs[i], now) THEN CheckAllNormal(d, rs, flags, hists)
                   ELSE IF RisingEdge(is_out, was_out)
                        THEN TriggerPause(d, [rs EXCEPT ![i].last_triggered = now], i,
                                          Reason(m, value, min_val, max_val), m)
                   ELSE CheckAllNormal(d, rs, flags, hists)
    IN  [rules |-> out.rules, paused |-> out.paused, reasons |-> out.reasons,
         action |-> out.action, slot |-> out.slot, flags |-> flags, hists |-> hists]

\* ------------------------------------------------------ callback (main.py)
\* execute_schedule_action up to its db.commit(): the new (status, mode) of
\* the device's ProductionStatus row, and whether status was written.
ExecuteScheduleAction(d, action) ==
    LET cmd == action.action
        unchanged == [status |-> status[d], mode |-> mode[d], wrote |-> FALSE]
    IN  IF cmd = "none" THEN unchanged
        ELSE IF status[d] = "none" THEN unchanged
        ELSE IF cmd = "start" /\ status[d] # "running"
             THEN [status |-> "running", mode |-> mode[d], wrote |-> TRUE]
        ELSE IF cmd = "stop" /\ status[d] # "stopped"
             THEN [status |-> "stopped", mode |-> mode[d], wrote |-> TRUE]
        ELSE IF cmd = "pause" /\ status[d] = "running"
             THEN [status |-> "paused", mode |-> mode[d], wrote |-> TRUE]
        ELSE IF cmd = "switch_mode"
             THEN [status |-> status[d],
                   mode |-> IF action.params = "" THEN "product_a" ELSE action.params,
                   wrote |-> FALSE]
        ELSE unchanged

\* "if self.action_callback: await self.action_callback(device_id, action)"
Dispatch(d, action, slot) ==
    IF action = << >>
    THEN /\ cb' = << >>
         /\ UNCHANGED << status, mode, status_by, fired_at >>
    ELSE LET e == ExecuteScheduleAction(d, action[1])
         IN  /\ cb' = << [device_id |-> d, action |-> action[1]] >>
             /\ status' = [status EXCEPT ![d] = e.status]
             /\ mode' = [mode EXCEPT ![d] = e.mode]
             /\ status_by' = [status_by EXCEPT ![d] = IF e.wrote THEN "scheduler" ELSE @]
             /\ fired_at' = [fired_at EXCEPT ![d][slot] = now]

Init ==
    /\ now = StartTime
    /\ inited = {}
    /\ rules = [d \in Devices |-> << >>]
    /\ thresholds = [d \in Devices |-> DefaultThresholds]
    /\ plans = [d \in Devices |-> << >>]
    /\ paused_by_scheduler = [d \in Devices |-> FALSE]
    /\ pause_reasons = [d \in Devices |-> << >>]
    /\ out_of_range = [d \in Devices |-> [m \in Metrics |-> FALSE]]
    /\ history = [d \in Devices |-> [m \in Metrics |-> << >>]]
    /\ status = [d \in Devices |-> "none"]
    /\ mode = [d \in Devices |-> "none"]
    /\ ret = << >>
    /\ ret_ok = << >>
    /\ ret_info = << >>
    /\ raised = ""
    /\ awaiting = [task \in Tasks |-> << >>]
    /\ cb = << >>
    /\ fired_at = [d \in Devices |-> [i \in 1..Len(DefaultRules) |-> 0]]
    /\ last_fired = [d \in Devices |-> [m \in Metrics |-> FALSE]]
    /\ checked = [d \in Devices |-> FALSE]
    /\ status_by = [d \in Devices |-> "none"]
    /\ manual = [d \in Devices |-> "none"]
    /\ called = ""
    /\ plan_fired = [d \in Devices |-> FALSE]
    /\ used = [cfg |-> 0, prod |-> 0]

\* The clock advances between operations.
Tick ==
    /\ now < StartTime + MaxTicks * TickStep
    /\ now' = now + TickStep
    /\ ret' = << >>
    /\ ret_ok' = << >>
    /\ cb' = << >>
    /\ checked' = [d \in Devices |-> FALSE]
    /\ UNCHANGED plan_fired
    /\ called' = ""
    /\ ret_info' = << >>
    /\ raised' = ""
    /\ UNCHANGED awaiting
    /\ UNCHANGED << used, inited, rules, thresholds, plans, paused_by_scheduler, pause_reasons,
                    out_of_range, history, status, mode, fired_at,
                    last_fired, status_by, manual >>

\* A direct init_device call (main.py calls it at startup).
InitDevice(d) ==
    LET fresh == d \notin inited
    IN  /\ inited' = inited \cup {d}
        /\ rules' = [rules EXCEPT ![d] = RulesOf(d)]
        /\ paused_by_scheduler' = [paused_by_scheduler EXCEPT ![d] = IF fresh THEN FALSE ELSE @]
        /\ pause_reasons' = [pause_reasons EXCEPT ![d] = IF fresh THEN << >> ELSE @]
        /\ out_of_range' = [out_of_range EXCEPT ![d] =
                                IF fresh THEN [m \in Metrics |-> FALSE] ELSE @]
        /\ history' = [history EXCEPT ![d] = IF fresh THEN [m \in Metrics |-> << >>] ELSE @]
        /\ thresholds' = [thresholds EXCEPT ![d] = IF fresh THEN DefaultThresholds ELSE @]
        /\ ret' = << >>
        /\ ret_ok' = << >>
        /\ cb' = << >>
        /\ checked' = [x \in Devices |-> FALSE]
        /\ UNCHANGED plan_fired
        /\ called' = "init_device"
        /\ ret_info' = << >>
        /\ raised' = ""
        /\ UNCHANGED awaiting
        /\ UNCHANGED << now, plans, status, mode, fired_at, last_fired, status_by, manual, used >>

\* Readings the three histories of the device hold.
HeldReadings(d) ==
    Len(history[d]["temperature"]) + Len(history[d]["humidity"]) + Len(history[d]["pressure"])

\* One check_temperature / check_humidity / check_pressure call, with the
\* callback it awaits.
CheckCall(d, m, value) ==
    LET r == CheckMetric(d, m, value)
    IN  /\ inited' = inited \cup {d}
        /\ rules' = [rules EXCEPT ![d] = r.rules]
        /\ history' = [history EXCEPT ![d] = r.hists]
        /\ out_of_range' = [out_of_range EXCEPT ![d] = r.flags]
        /\ paused_by_scheduler' = [paused_by_scheduler EXCEPT ![d] = r.paused]
        /\ pause_reasons' = [pause_reasons EXCEPT ![d] = r.reasons]
        /\ ret' = r.action
        /\ ret_ok' = << >>
        /\ Dispatch(d, r.action, r.slot)
        /\ last_fired' = [last_fired EXCEPT ![d][m] =
                            r.action # << >> /\ r.slot = GetRule(RulesOf(d), PauseRuleId[m])]
        /\ checked' = [x \in Devices |-> x = d]
        /\ UNCHANGED plan_fired
        /\ called' = "check"
        /\ ret_info' = << >>
        /\ raised' = ""
        /\ UNCHANGED awaiting
        /\ UNCHANGED << now, thresholds, plans, manual, used >>

\* The check call, while the histories of the device hold fewer than
\* MaxReadings readings.
CheckSensor(d, m, value) ==
    /\ HeldReadings(d) < MaxReadings
    /\ CheckCall(d, m, value)

\* A check call made by a task, up to the point where it returns or is
\* suspended: the code from the entry of check_temperature to "await
\* self.action_callback" contains no suspension point, and the callback runs
\* up to its own first suspension (its broadcasts) with it.  A call that has
\* no action returns at once; a call that has one waits for the callback.
CheckEnter(task, d, m, value) ==
    LET r == CheckMetric(d, m, value)
    IN  /\ awaiting[task] = << >>
        /\ inited' = inited \cup {d}
        /\ rules' = [rules EXCEPT ![d] = r.rules]
        /\ history' = [history EXCEPT ![d] = r.hists]
        /\ out_of_range' = [out_of_range EXCEPT ![d] = r.flags]
        /\ paused_by_scheduler' = [paused_by_scheduler EXCEPT ![d] = r.paused]
        /\ pause_reasons' = [pause_reasons EXCEPT ![d] = r.reasons]
        /\ ret' = << >>
        /\ ret_ok' = << >>
        /\ ret_info' = << >>
        /\ raised' = ""
        /\ Dispatch(d, r.action, r.slot)
        /\ awaiting' = [awaiting EXCEPT ![task] =
                            IF r.action = << >> THEN << >>
                            ELSE << [device_id |-> d, action |-> r.action[1]] >>]
        /\ last_fired' = [last_fired EXCEPT ![d][m] =
                            r.action # << >> /\ r.slot = GetRule(RulesOf(d), PauseRuleId[m])]
        /\ checked' = [x \in Devices |-> x = d]
        /\ called' = "check"
        /\ UNCHANGED << now, thresholds, plans, manual, plan_fired, used >>

\* The callback a call waits for completes: "return action".
CallbackReturns(task) ==
    /\ awaiting[task] # << >>
    /\ awaiting' = [awaiting EXCEPT ![task] = << >>]
    /\ ret' = << awaiting[task][1].action >>
    /\ raised' = ""
    /\ ret_ok' = << >>
    /\ ret_info' = << >>
    /\ cb' = << >>
    /\ checked' = [x \in Devices |-> FALSE]
    /\ called' = "check returns"
    /\ UNCHANGED << now, inited, rules, thresholds, plans, paused_by_scheduler, pause_reasons,
                    out_of_range, history, status, mode, fired_at, last_fired, status_by,
                    manual, plan_fired, used >>

\* The callback a call waits for raises: no try encloses the await, so the
\* exception leaves the check call in place of its return value.
CallbackRaises(task) ==
    /\ awaiting[task] # << >>
    /\ awaiting' = [awaiting EXCEPT ![task] = << >>]
    /\ ret' = << >>
    /\ raised' = "callback"
    /\ ret_ok' = << >>
    /\ ret_info' = << >>
    /\ cb' = << >>
    /\ checked' = [x \in Devices |-> FALSE]
    /\ called' = "check raises"
    /\ UNCHANGED << now, inited, rules, thresholds, plans, paused_by_scheduler, pause_reasons,
                    out_of_range, history, status, mode, fired_at, last_fired, status_by,
                    manual, plan_fired, used >>

\* clear_scheduler_pause
ClearSchedulerPause(d) ==
    /\ inited' = inited \cup {d}
    /\ rules' = [rules EXCEPT ![d] = RulesOf(d)]
    /\ paused_by_scheduler' = [paused_by_scheduler EXCEPT ![d] = FALSE]
    /\ pause_reasons' = [pause_reasons EXCEPT ![d] = << >>]
    /\ ret' = << >>
    /\ ret_ok' = << >>
    /\ cb' = << >>
    /\ manual' = [manual EXCEPT ![d] = IF @ = "halted" THEN "cleared" ELSE @]
    /\ checked' = [x \in Devices |-> FALSE]
    /\ UNCHANGED plan_fired
    /\ called' = "clear_scheduler_pause"
    /\ ret_info' = << >>
    /\ raised' = ""
    /\ UNCHANGED awaiting
    /\ UNCHANGED << now, thresholds, plans, out_of_range, history, status, mode,
                    fired_at, last_fired, status_by, used >>

\* send_control (POST /api/control) up to its db.commit(): the handler writes
\* the ProductionStatus row and never touches the scheduler.
SendControl(d, cmd) ==
    LET row_status == IF status[d] = "none" THEN "stopped" ELSE status[d]
        row_mode   == IF status[d] = "none" THEN "product_a" ELSE mode[d]
    IN  /\ status' = [status EXCEPT ![d] =
                        CASE cmd = "start" -> "running"
                          [] cmd = "stop"  -> "stopped"
                          [] cmd = "pause" -> "paused"
                          [] OTHER -> row_status]
        /\ mode' = [mode EXCEPT ![d] = IF cmd = "switch_mode" THEN "product_a" ELSE row_mode]
        /\ status_by' = [status_by EXCEPT ![d] =
                            IF cmd \in {"start", "stop", "pause"} THEN "manual" ELSE @]
        /\ manual' = [manual EXCEPT ![d] =
                        CASE cmd = "start" -> "none"
                          [] cmd \in {"stop", "pause"} -> "halted"
                          [] OTHER -> @]
        /\ ret' = << >>
        /\ ret_ok' = << >>
        /\ cb' = << >>
        /\ checked' = [x \in Devices |-> FALSE]
        /\ UNCHANGED plan_fired
        /\ called' = "send_control"
        /\ ret_info' = << >>
        /\ raised' = ""
        /\ UNCHANGED awaiting
        /\ UNCHANGED << now, inited, rules, thresholds, plans, paused_by_scheduler,
                        pause_reasons, out_of_range, history, fired_at, last_fired, used >>


\* The body of update_thresholds' loop with a key missing from the dict
\* leaving the rule's bound as it is
SyncRule_Restamp(rule, t) ==
    IF \E m \in Metrics : rule.id = PauseRuleId[m]
    THEN LET m == CHOOSE m \in Metrics : rule.id = PauseRuleId[m]
         IN  [rule EXCEPT !.threshold_min = Get(t, MinKey[m], MinDefault[m]),
                          !.threshold_max = Get(t, MaxKey[m], MaxDefault[m]),
                          !.last_triggered = 0]
    ELSE rule

SyncRule_KeepMissing(rule, t) ==
    IF \E m \in Metrics : rule.id = PauseRuleId[m]
    THEN LET m == CHOOSE m \in Metrics : rule.id = PauseRuleId[m]
         IN  [rule EXCEPT !.threshold_min = Get(t, MinKey[m], rule.threshold_min),
                          !.threshold_max = Get(t, MaxKey[m], rule.threshold_max)]
    ELSE rule

\* The body of update_thresholds' loop: the rule with the bounds of the dict
\* if it is an environmental rule, the rule itself otherwise.
SyncRule(rule, t) ==
    IF \E m \in Metrics : rule.id = PauseRuleId[m]
    THEN LET m == CHOOSE m \in Metrics : rule.id = PauseRuleId[m]
         IN  [rule EXCEPT !.threshold_min = Get(t, MinKey[m], MinDefault[m]),
                          !.threshold_max = Get(t, MaxKey[m], MaxDefault[m])]
    ELSE rule

\* update_thresholds over one thresholds dict that all devices share
UpdateThresholdsCall_SharedDict(d, t) ==
    LET rs == RulesOf(d)
    IN  /\ inited' = inited \cup {d}
        /\ thresholds' = [x \in Devices |-> t]
        /\ rules' = [rules EXCEPT ![d] = [i \in 1..Len(rs) |-> SyncRule(rs[i], t)]]
        /\ ret' = << >>
        /\ ret_ok' = << >>
        /\ cb' = << >>
        /\ checked' = [x \in Devices |-> FALSE]
        /\ UNCHANGED plan_fired
        /\ called' = "update_thresholds"
        /\ ret_info' = << >>
        /\ raised' = ""
        /\ UNCHANGED awaiting
        /\ UNCHANGED << now, plans, paused_by_scheduler, pause_reasons, out_of_range, history,
                        status, mode, fired_at, last_fired, status_by, manual >>

\* update_thresholds: replaces the dict and copies the bounds onto the three
\* environmental rules, found by id in list order.
UpdateThresholdsCall(d, t) ==
    LET rs == RulesOf(d)
    IN  /\ inited' = inited \cup {d}
        /\ thresholds' = [thresholds EXCEPT ![d] = t]
        /\ rules' = [rules EXCEPT ![d] = [i \in 1..Len(rs) |-> SyncRule(rs[i], t)]]
        /\ ret' = << >>
        /\ ret_ok' = << >>
        /\ cb' = << >>
        /\ checked' = [x \in Devices |-> FALSE]
        /\ UNCHANGED plan_fired
        /\ called' = "update_thresholds"
        /\ ret_info' = << >>
        /\ raised' = ""
        /\ UNCHANGED awaiting
        /\ UNCHANGED << now, plans, paused_by_scheduler, pause_reasons, out_of_range, history,
                        status, mode, fired_at, last_fired, status_by, manual >>

\* The update_thresholds call, while fewer than MaxConfig configuration calls
\* were made.
UpdateThresholds(d, t) ==
    /\ used.cfg < MaxConfig
    /\ used' = [used EXCEPT !.cfg = @ + 1]
    /\ UpdateThresholdsCall(d, t)

\* setattr(rule, key, value) for every key of the patch the rule has
ApplyPatch(rule, patch) ==
    [f \in DOMAIN rule |-> IF f \in DOMAIN patch THEN patch[f] ELSE rule[f]]

\* update_rule; ret_ok is <<TRUE>> or <<FALSE>>
UpdateRuleCall(d, rule_id, patch) ==
    LET rs == RulesOf(d)
        i  == GetRule(rs, rule_id)
    IN  /\ inited' = inited \cup {d}
        /\ rules' = [rules EXCEPT ![d] = IF i = 0 THEN rs
                                         ELSE [rs EXCEPT ![i] = ApplyPatch(rs[i], patch)]]
        /\ ret' = << >>
        /\ ret_ok' = << i # 0 >>
        /\ cb' = << >>
        /\ checked' = [x \in Devices |-> FALSE]
        /\ UNCHANGED plan_fired
        /\ called' = "update_rule"
        /\ ret_info' = << >>
        /\ raised' = ""
        /\ UNCHANGED awaiting
        /\ UNCHANGED << now, thresholds, plans, paused_by_scheduler, pause_reasons,
                        out_of_range, history, status, mode, fired_at, last_fired,
                        status_by, manual >>

\* The update_rule call, while fewer than MaxConfig configuration calls were
\* made.
UpdateRule(d, rule_id, patch) ==
    /\ used.cfg < MaxConfig
    /\ used' = [used EXCEPT !.cfg = @ + 1]
    /\ UpdateRuleCall(d, rule_id, patch)

\* ProductionPlan: the fields check_production and get_plan_progress read.
\* auto_switch_mode "" is None; start_time is datetime.now() on the clock of
\* the model.
ProductionPlan(target_count, start_time, auto_stop, auto_switch_mode) ==
    [target_count |-> target_count, start_time |-> start_time,
     auto_stop_on_complete |-> auto_stop, auto_switch_mode |-> auto_switch_mode]

\* set_production_plan
SetProductionPlan(d, target_count, auto_stop, auto_switch_mode) ==
    LET rs == RulesOf(d)
        i  == GetRule(rs, "production_complete")
    IN  /\ used.prod < MaxProd
        /\ used' = [used EXCEPT !.prod = @ + 1]
        /\ plans' = [plans EXCEPT ![d] = << ProductionPlan(target_count, now, auto_stop, auto_switch_mode) >>]
        /\ inited' = inited \cup {d}
        /\ rules' = [rules EXCEPT ![d] =
                        IF i = 0 THEN rs
                        ELSE [rs EXCEPT ![i].threshold_max = target_count,
                                        ![i].enabled = target_count > 0]]
        /\ ret' = << >>
        /\ ret_ok' = << >>
        /\ cb' = << >>
        /\ checked' = [x \in Devices |-> FALSE]
        /\ plan_fired' = [plan_fired EXCEPT ![d] = FALSE]
        /\ called' = "set_production_plan"
        /\ ret_info' = << >>
        /\ raised' = ""
        /\ UNCHANGED awaiting
        /\ UNCHANGED << now, thresholds, paused_by_scheduler, pause_reasons, out_of_range,
                        history, status, mode, fired_at, last_fired, status_by, manual >>

\* clear_production_plan: no init_device; _get_rule reads self.rules.get(d, [])
ClearProductionPlan(d) ==
    LET rs == rules[d]
        i  == GetRule(rs, "production_complete")
    IN  /\ used.prod < MaxProd
        /\ used' = [used EXCEPT !.prod = @ + 1]
        /\ plans' = [plans EXCEPT ![d] = << >>]
        /\ rules' = [rules EXCEPT ![d] = IF i = 0 THEN rs ELSE [rs EXCEPT ![i].enabled = FALSE]]
        /\ ret' = << >>
        /\ ret_ok' = << >>
        /\ cb' = << >>
        /\ checked' = [x \in Devices |-> FALSE]
        /\ plan_fired' = [plan_fired EXCEPT ![d] = FALSE]
        /\ called' = "clear_production_plan"
        /\ ret_info' = << >>
        /\ raised' = ""
        /\ UNCHANGED awaiting
        /\ UNCHANGED << now, inited, thresholds, paused_by_scheduler, pause_reasons,
                        out_of_range, history, status, mode, fired_at, last_fired,
                        status_by, manual >>

\* check_production with the auto_switch_mode override applied only when
\* auto_stop_on_complete is off
ProductionAction_StopFirst(rule, plan, current_count) ==
    [rule_id |-> rule.id,
     action |-> IF plan.auto_stop_on_complete THEN "stop"
                ELSE IF plan.auto_switch_mode # "" THEN "switch_mode" ELSE "none",
     params |-> IF plan.auto_stop_on_complete THEN "" ELSE plan.auto_switch_mode,
     reason |-> << "production", current_count, plan.target_count >>,
     param_type |-> ""]

\* The dict check_production returns and hands to the callback.
ProductionAction(rule, plan, current_count) ==
    [rule_id |-> rule.id,
     action |-> IF plan.auto_switch_mode # "" THEN "switch_mode"
                ELSE IF plan.auto_stop_on_complete THEN "stop" ELSE "none",
     params |-> plan.auto_switch_mode,
     reason |-> << "production", current_count, plan.target_count >>,
     param_type |-> ""]

\* check_production
CheckProductionResult(d, current_count) ==
    LET rs == RulesOf(d)
        i  == GetRule(rs, "production_complete")
    IN  IF plans[d] = << >> \/ plans[d][1].target_count <= 0 THEN Nothing(d, rs)
        ELSE IF ~RuleActive(rs, i) THEN Nothing(d, rs)
        ELSE IF ~CooldownElapsed(rs[i], now) THEN Nothing(d, rs)
        ELSE IF current_count >= plans[d][1].target_count
             THEN [rules |-> [rs EXCEPT ![i].last_triggered = now],
                   paused |-> paused_by_scheduler[d], reasons |-> pause_reasons[d],
                   action |-> << ProductionAction(rs[i], plans[d][1], current_count) >>,
                   slot |-> i]
        ELSE Nothing(d, rs)

CheckProduction(d, current_count) ==
    LET r == CheckProductionResult(d, current_count)
    IN  /\ used.prod < MaxProd
        /\ used' = [used EXCEPT !.prod = @ + 1]
        /\ inited' = inited \cup {d}
        /\ rules' = [rules EXCEPT ![d] = r.rules]
        /\ ret' = r.action
        /\ ret_ok' = << >>
        /\ Dispatch(d, r.action, r.slot)
        /\ checked' = [x \in Devices |-> FALSE]
        /\ plan_fired' = [plan_fired EXCEPT ![d] = @ \/ r.action # << >>]
        /\ called' = "check_production"
        /\ ret_info' = << >>
        /\ raised' = ""
        /\ UNCHANGED awaiting
        /\ UNCHANGED << now, thresholds, plans, paused_by_scheduler, pause_reasons,
                        out_of_range, history, last_fired, manual >>

\* round(x, 1) of the float num / den (den > 0), in tenths: the nearest
\* tenth, a tie going to the even one.
RoundToTenth(num, den) ==
    LET q == (20 * num + den) \div (2 * den)
    IN  IF (20 * num + den) % (2 * den) = 0 /\ q % 2 = 1 THEN q - 1 ELSE q

\* strftime("%H:%M:%S") of a time given in seconds: the second of the day.
SecondsPerDay == 86400
ClockTime(seconds) == seconds % SecondsPerDay

\* round(min(100, (current_count / target_count) * 100), 1), in tenths of a
\* percent.
ProgressPercent(current_count, target_count) ==
    IF current_count >= target_count THEN 1000
    ELSE RoundToTenth(100 * current_count, target_count)

\* get_plan_progress with "target_count != 0" for "target_count <= 0"
HasPlan_NonZeroTarget(plan) == plan # << >> /\ plan[1].target_count # 0

\* "if not plan or plan.target_count <= 0" is false
HasPlan(plan) == plan # << >> /\ plan[1].target_count > 0

\* The dict get_plan_progress returns; raises is TRUE where the method
\* leaves by ZeroDivisionError instead ("rate = current_count / elapsed"
\* with elapsed = 0).  A datetime is always true, so "plan.start_time and"
\* never skips the estimate.
PlanProgress(plan, current_count) ==
    IF ~HasPlan(plan)
    THEN [raises |-> FALSE,
          dict |-> [has_plan |-> FALSE, target |-> 0, current |-> current_count,
                    progress |-> 0, remaining |-> 0, estimated_time |-> << >>]]
    ELSE LET target    == plan[1].target_count
             remaining == IF target - current_count > 0 THEN target - current_count ELSE 0
             estimate  == current_count > 0 /\ current_count < target
             elapsed   == now - plan[1].start_time
         IN  [raises |-> estimate /\ elapsed = 0,
              dict |-> [has_plan |-> TRUE, target |-> target, current |-> current_count,
                        progress |-> ProgressPercent(current_count, target),
                        remaining |-> remaining,
                        estimated_time |->
                            IF estimate /\ elapsed > 0
                            THEN << ClockTime(now + (remaining * elapsed) \div current_count) >>
                            ELSE << >>]]

\* get_plan_progress: no init_device; reads self.plans only.
GetPlanProgress(d, current_count) ==
    LET r == PlanProgress(plans[d], current_count)
    IN  /\ ret_info' = IF r.raises THEN << >> ELSE << r.dict >>
        /\ raised' = IF r.raises THEN "ZeroDivisionError" ELSE ""
        /\ ret' = << >>
        /\ ret_ok' = << >>
        /\ cb' = << >>
        /\ checked' = [x \in Devices |-> FALSE]
        /\ called' = "get_plan_progress"
        /\ UNCHANGED << now, inited, rules, thresholds, plans, paused_by_scheduler,
                        pause_reasons, out_of_range, history, status, mode, fired_at,
                        last_fired, status_by, manual, plan_fired, used, awaiting >>

\* get_rules: init_device, then the list of the rules as dicts (held in a
\* record of one field).
GetRules(d) ==
    /\ inited' = inited \cup {d}
    /\ rules' = [rules EXCEPT ![d] = RulesOf(d)]
    /\ ret_info' = << [rules |-> RulesOf(d)] >>
    /\ raised' = ""
    /\ ret' = << >>
    /\ ret_ok' = << >>
    /\ cb' = << >>
    /\ checked' = [x \in Devices |-> FALSE]
    /\ called' = "get_rules"
    /\ UNCHANGED << now, thresholds, plans, paused_by_scheduler, pause_reasons, out_of_range,
                    history, status, mode, fired_at, last_fired, status_by, manual,
                    plan_fired, used, awaiting >>

\* get_state: init_device, then the rules, the plan (a plan without target
\* where the device has none), the pause state and the three flags.
GetState(d) ==
    /\ inited' = inited \cup {d}
    /\ rules' = [rules EXCEPT ![d] = RulesOf(d)]
    /\ ret_info' = << [rules |-> RulesOf(d),
                       plan |-> IF plans[d] = << >>
                                THEN [target_count |-> 0, start_time |-> << >>,
                                      auto_stop_on_complete |-> TRUE, auto_switch_mode |-> ""]
                                ELSE [plans[d][1] EXCEPT !.start_time = << @ >>],
                       paused_by_scheduler |-> paused_by_scheduler[d],
                       pause_reasons |-> pause_reasons[d],
                       current_status |-> out_of_range[d]] >>
    /\ raised' = ""
    /\ ret' = << >>
    /\ ret_ok' = << >>
    /\ cb' = << >>
    /\ checked' = [x \in Devices |-> FALSE]
    /\ called' = "get_state"
    /\ UNCHANGED << now, thresholds, plans, paused_by_scheduler, pause_reasons, out_of_range,
                    history, status, mode, fired_at, last_fired, status_by, manual,
                    plan_fired, used, awaiting >>

\* ----------------------------------------------------------- specifications
\* The devices the environment of the specifications talks to.
Fleet == {"device_001"}

\* Spec: the scheduler driven through its own interface - readings of the
\* three metrics, the clock and configuration changes.
Next ==
    \/ Tick
    \/ \E d \in Fleet, m \in Metrics : \E value \in Readings[m] : CheckSensor(d, m, value)
    \/ \E d \in Fleet, t \in ThresholdInputs : UpdateThresholds(d, t)
    \/ \E d \in Fleet, rp \in RulePatchInputs : UpdateRule(d, rp[1], rp[2])

Spec == Init /\ [][Next]_vars

\* SpecControl: the composed backend - the device socket feeds temperature
\* readings (process_sensor_data calls check_temperature only), the operator
\* issues commands through send_control, and a collaborator may call
\* clear_scheduler_pause.
NextControl ==
    \/ Tick
    \/ \E d \in Fleet, value \in ControlReadings : CheckSensor(d, "temperature", value)
    \/ \E d \in Fleet, cmd \in Commands : SendControl(d, cmd)
    \/ \E d \in Fleet : ClearSchedulerPause(d)

SpecControl == Init /\ [][NextControl]_vars

\* SpecProd: the production plan tracker - plans set and cleared, counts
\* reported by the conveyor task, and patches of the production rule.
NextProd ==
    \/ Tick
    \/ \E d \in Fleet, n \in TargetInputs, auto_stop \in BOOLEAN, sw \in ModeInputs :
            SetProductionPlan(d, n, auto_stop, sw)
    \/ \E d \in Fleet : ClearProductionPlan(d)
    \/ \E d \in Fleet, c \in CountInputs : CheckProduction(d, c)
    \/ \E d \in Fleet, rp \in ProdPatchInputs : UpdateRule(d, rp[1], rp[2])

SpecProd == Init /\ [][NextProd]_vars

\* SpecProgress: the progress endpoint - plans set and cleared, the clock,
\* and get_plan_progress with the count of the status row.
NextProgress ==
    \/ Tick
    \/ \E d \in Fleet, n \in ProgressTargets : SetProductionPlan(d, n, TRUE, "")
    \/ \E d \in Fleet : ClearProductionPlan(d)
    \/ \E d \in Fleet, c \in ProgressCounts : GetPlanProgress(d, c)

SpecProgress == Init /\ [][NextProgress]_vars

\* SpecConfig: the configuration endpoints - init_device, update_thresholds
\* and update_rule called any number of times - between readings of
\* temperature and humidity.
ConfigMetrics == {"temperature", "humidity"}

NextConfig ==
    \/ Tick
    \/ \E d \in Fleet : InitDevice(d)
    \/ \E d \in Fleet, m \in ConfigMetrics : \E value \in Readings[m] :
            HeldReadings(d) < MaxConfigReadings /\ CheckCall(d, m, value)
    \/ \E d \in Fleet, t \in ConfigThresholdInputs : UpdateThresholdsCall(d, t) /\ UNCHANGED used
    \/ \E d \in Fleet, rp \in ConfigPatchInputs : UpdateRuleCall(d, rp[1], rp[2]) /\ UNCHANGED used

SpecConfig == Init /\ [][NextConfig]_vars

\* SpecGate: readings of temperature and humidity while the temperature
\* pause rule is switched off and on through update_rule and a collaborator
\* may call clear_scheduler_pause.
NextGate ==
    \/ Tick
    \/ \E d \in Fleet, m \in ConfigMetrics : \E value \in Readings[m] : CheckSensor(d, m, value)
    \/ \E d \in Fleet, rp \in GatePatchInputs : UpdateRuleCall(d, rp[1], rp[2]) /\ UNCHANGED used
    \/ \E d \in Fleet : ClearSchedulerPause(d)

SpecGate == Init /\ [][NextGate]_vars

\* SpecFleet: two devices.  One is driven through every public operation of
\* the scheduler - temperature readings, the configuration calls, the plan
\* operations and the queries; the other one is paused by a reading,
\* reconfigured and given a plan.
FleetCall(d) ==
    \/ d \notin inited /\ InitDevice(d)
    \/ \E value \in ControlReadings :
            HeldReadings(d) < MaxFleetReadings /\ CheckCall(d, "temperature", value)
    \/ \E t \in ThresholdInputs : UpdateThresholdsCall(d, t) /\ UNCHANGED used
    \/ UpdateRuleCall(d, "all_normal_start", [enabled |-> FALSE]) /\ UNCHANGED used
    \/ ClearSchedulerPause(d)
    \/ SetProductionPlan(d, 2, TRUE, "")
    \/ ClearProductionPlan(d)
    \/ CheckProduction(d, 2)
    \/ GetPlanProgress(d, 2)
    \/ GetRules(d)
    \/ GetState(d)

NeighbourCall(d) ==
    \/ HeldReadings(d) < MaxFleetReadings /\ CheckCall(d, "temperature", 40)
    \/ UpdateRuleCall(d, "all_normal_start", [enabled |-> FALSE]) /\ UNCHANGED used
    \/ SetProductionPlan(d, 2, TRUE, "")

NextFleet ==
    \/ FleetCall("device_001")
    \/ NeighbourCall("device_002")

SpecFleet == Init /\ [][NextFleet]_vars

\* SpecAsync: the event loop - the handlers of two sockets of the same
\* device feed readings of temperature and humidity; a handler awaits each
\* check call before it receives the next message, and a call that invoked
\* the callback is suspended until the callback returns or raises, which it
\* may never do.
NextAsync ==
    \/ Tick
    \/ \E task \in Tasks, d \in Fleet, m \in ConfigMetrics : \E value \in Readings[m] :
            HeldReadings(d) < MaxConfigReadings /\ CheckEnter(task, d, m, value)
    \/ \E task \in Tasks : CallbackReturns(task)
    \/ \E task \in Tasks : CallbackRaises(task)

SpecAsync == Init /\ [][NextAsync]_vars

\* SpecRecover: a line whose temperature and humidity sensors keep reporting,
\* with no bound on the number of readings (the histories are capped by the
\* code); the pressure sensor never reports.  The clock keeps advancing up
\* to its horizon.
RecoverMetrics == {"temperature", "humidity"}

NextRecover ==
    \/ Tick
    \/ \E d \in Fleet, m \in RecoverMetrics : \E value \in RecoverReadings[m] :
            CheckCall(d, m, value)

SpecRecover == Init /\ [][NextRecover]_vars /\ WF_vars(Tick)


\* ------------------------------------------------------------------ claims
\* Vocabulary of the properties, written out on the state so that it does
\* not depend on the operators of the model.
IsStart(r) == r # << >> /\ r[1].action = "start"
IsPause(r) == r # << >> /\ r[1].action = "pause"
MinOf(d, m) == IF MinKey[m] \in DOMAIN thresholds[d] THEN thresholds[d][MinKey[m]] ELSE MinDefault[m]
MaxOf(d, m) == IF MaxKey[m] \in DOMAIN thresholds[d] THEN thresholds[d][MaxKey[m]] ELSE MaxDefault[m]
InRange(d, m, value) == MinOf(d, m) <= value /\ value <= MaxOf(d, m)
PauseSlot == [temperature |-> 1, humidity |-> 2, pressure |-> 3]
RecoverySlot == 5
ProductionSlot == 4
\* The last three readings of the history h of metric m are within the range.
LastThreeInRange(d, m, h) ==
    \A k \in 1..Len(h) : k > Len(h) - 3 => InRange(d, m, h[k])
\* Some check of device d ran at the present instant and no configuration
\* call was ever made, so the present configuration is the one it ran under.
JustChecked(d) == used.cfg = 0 /\ checked[d]
\* Metric m is the only metric of d that was ever read.
OnlyMetricRead(d, m) == \A k \in Metrics \ {m} : Len(history[d][k]) = 0
\* The recovery rule of d is enabled and its cooldown, measured from its
\* last_triggered field, has elapsed.
RecoveryReady(d) ==
    /\ d \in inited
    /\ rules[d][RecoverySlot].enabled
    /\ now - rules[d][RecoverySlot].last_triggered >= rules[d][RecoverySlot].cooldown

C2_NoStartAfterClear ==
    [][\A d \in Devices, m \in Metrics : \A value \in Readings[m] :
          (manual[d] = "cleared" /\ CheckSensor(d, m, value)) => ~IsStart(ret')]_vars

\* C3: every start/stop/pause/switch_mode command handled by send_control
\* leaves paused_by_scheduler[d] false and pause_reasons[d] empty.
C3_ControlClearsSchedulerPause ==
    [][\A d \in Devices, cmd \in {"start", "stop", "pause", "switch_mode"} :
          SendControl(d, cmd) => (~paused_by_scheduler'[d] /\ pause_reasons'[d] = << >>)]_vars

\* C4: a scheduler `start` sets a line running only if the scheduler itself
\* had moved it from running to paused; never a line a manual command
\* stopped or paused.
C4_SchedulerRestartsOnlyItsOwnPause ==
    [][\A d \in Devices, m \in Metrics : \A value \in Readings[m] :
          (status[d] # "running" /\ status'[d] = "running" /\ CheckSensor(d, m, value))
              => (status[d] = "paused" /\ status_by[d] = "scheduler")]_vars

\* C5: after a check emitted the metric's pause, the next check of that
\* metric with the same value, still out of range and made less than the
\* rule's cooldown after the pause, returns nothing and invokes no callback.
C5_NoActionOnRepeatWithinCooldown ==
    [][\A d \in Devices, m \in Metrics : \A value \in Readings[m] :
          ( /\ last_fired[d][m]
            /\ history[d][m][Len(history[d][m])] = value
            /\ ~InRange(d, m, value)
            /\ now - fired_at[d][PauseSlot[m]] < rules[d][PauseSlot[m]].cooldown
            /\ CheckSensor(d, m, value) )
          => (ret' = << >> /\ cb' = << >>)]_vars

\* C5 witness: two equal out-of-range readings, the first paused the line,
\* the second came within the cooldown and emitted nothing.
C5_Witness ==
    \E d \in Devices, m \in Metrics :
        /\ JustChecked(d) /\ OnlyMetricRead(d, m)
        /\ Len(history[d][m]) = 2
        /\ history[d][m][1] = history[d][m][2]
        /\ ~InRange(d, m, history[d][m][2])
        /\ fired_at[d][PauseSlot[m]] # 0
        /\ now - fired_at[d][PauseSlot[m]] < rules[d][PauseSlot[m]].cooldown
        /\ ~last_fired[d][m]
        /\ ret = << >> /\ cb = << >>

\* C6: a check emits `pause` for a metric only if the metric's out_of_range
\* flag was false before the call and the reading is out of range.
C6_PauseIsEdgeTriggered ==
    [][\A d \in Devices, m \in Metrics : \A value \in Readings[m] :
          (IsPause(ret') /\ ret'[1].param_type = m /\ CheckSensor(d, m, value))
              => (~out_of_range[d][m] /\ ~InRange(d, m, value))]_vars

\* C6 witness: an out-of-range run that outlived the cooldown - the metric
\* was checked again, still out of range, after the cooldown of its pause
\* had expired, and that check emitted no pause.
C6_Witness ==
    \E d \in Devices, m \in Metrics :
        /\ JustChecked(d) /\ OnlyMetricRead(d, m)
        /\ Len(history[d][m]) = 2
        /\ ~InRange(d, m, history[d][m][1]) /\ ~InRange(d, m, history[d][m][2])
        /\ fired_at[d][PauseSlot[m]] # 0
        /\ rules[d][PauseSlot[m]].enabled
        /\ now - fired_at[d][PauseSlot[m]] >= rules[d][PauseSlot[m]].cooldown
        /\ ~last_fired[d][m]
        /\ out_of_range[d][m]
        /\ ret = << >>

\* C7: the callback is never invoked for a rule less than that rule's
\* cooldown after its previous invocation for the same rule.
C7_CallbackOncePerCooldown ==
    [][\A d \in Devices :
          ( /\ cb' # << >> /\ cb'[1].device_id = d
            /\ \/ \E m \in Metrics : \E value \in Readings[m] : CheckSensor(d, m, value)
               \/ \E c \in CountInputs : CheckProduction(d, c) )
          => LET i == GetRule(RulesOf(d), cb'[1].action.rule_id)
             IN  now - fired_at[d][i] >= RulesOf(d)[i].cooldown]_vars


AllReportedStable(d) ==
    /\ \A m \in Metrics : ~out_of_range[d][m]
    /\ \A m \in Metrics :
          \/ Len(history[d][m]) = 0
          \/ Len(history[d][m]) >= 3 /\ LastThreeInRange(d, m, history[d][m])

\* C11: if from some point on every reported metric of the device holds
\* three in-range readings and none is flagged (the metrics keep being
\* reported in range), check calls keep arriving and the recovery rule is
\* ready again and again, then a scheduler-paused device is eventually
\* handed a `start`; and the third in-range temperature reading after a
\* single out-of-range one returns `start`.
C11_RecoveryEventually ==
    \A d \in Fleet :
        /\ ( /\ <>[]AllReportedStable(d)
             /\ []<>checked[d]
             /\ []<>RecoveryReady(d) )
           => (paused_by_scheduler[d] ~> (IsStart(ret) /\ cb # << >> /\ cb[1].device_id = d))
        /\ []( ( /\ checked[d]
                 /\ history[d]["temperature"] = << 40, 20, 20, 20 >>
                 /\ OnlyMetricRead(d, "temperature") )
               => IsStart(ret) )

\* C11 witness: only temperature was ever read - one out-of-range reading
\* and three in-range ones - and the last check handed `start` to the
\* callback.
C11_Witness ==
    \E d \in Devices :
        /\ checked[d]
        /\ history[d]["temperature"] = << 40, 20, 20, 20 >>
        /\ OnlyMetricRead(d, "temperature")
        /\ IsStart(ret) /\ cb = << [device_id |-> d, action |-> ret[1]] >>
        /\ ~paused_by_scheduler[d]

\* C12: after check_production handed an action to the callback, every
\* further check_production call made less than the rule's cooldown later
\* returns nothing and invokes no callback, whatever the count.
C12_OneActionPerCooldown ==
    [][\A d \in Devices, c \in CountInputs :
          ( /\ fired_at[d][ProductionSlot] # 0
            /\ now - fired_at[d][ProductionSlot] < RulesOf(d)[ProductionSlot].cooldown
            /\ CheckProduction(d, c) )
          => (ret' = << >> /\ cb' = << >>)]_vars

\* C13: once check_production fired for the plan, no later check_production
\* call emits an action until set_production_plan is called again.
C13_PlanFiresOnce ==
    [][\A d \in Devices, c \in CountInputs :
          (plan_fired[d] /\ CheckProduction(d, c)) => (ret' = << >> /\ cb' = << >>)]_vars

\* The action kind the plan asks for: switch_mode if auto_switch_mode is
\* set, else stop if auto_stop_on_complete, else none.
PlanKind(plan) ==
    IF plan.auto_switch_mode # "" THEN "switch_mode"
    ELSE IF plan.auto_stop_on_complete THEN "stop"
    ELSE "none"

\* C14: when check_production fires, the action is of the kind the plan asks
\* for, a switch_mode carries the plan's mode, the callback receives the
\* same action, and the rule's last_triggered is stamped with the time of
\* the call.
C14_CompletionActionKind ==
    [][\A d \in Devices, c \in CountInputs :
          (ret' # << >> /\ CheckProduction(d, c))
          => /\ plans[d] # << >>
             /\ c >= plans[d][1].target_count
             /\ ret'[1].action = PlanKind(plans[d][1])
             /\ (ret'[1].action = "switch_mode" => ret'[1].params = plans[d][1].auto_switch_mode)
             /\ cb' = << [device_id |-> d, action |-> ret'[1]] >>
             /\ rules'[d][ProductionSlot].last_triggered = now]_vars

\* C14 witness: a plan with both auto_stop_on_complete and auto_switch_mode
\* set has just fired as switch_mode.
C14_Witness ==
    \E d \in Devices :
        /\ plans[d] # << >>
        /\ plans[d][1].auto_stop_on_complete /\ plans[d][1].auto_switch_mode = "product_b"
        /\ ret # << >> /\ ret[1].action = "switch_mode" /\ ret[1].params = "product_b"
        /\ cb # << >> /\ cb[1].device_id = d
        /\ plan_fired[d]
        /\ rules[d][ProductionSlot].last_triggered = now

\* C15: check_production returns nothing, invokes no callback and leaves
\* every rule as it was when the device has no plan, or the plan's target is
\* not positive, or the production rule is disabled, or its cooldown has not
\* elapsed, or the count is below the target.
C15_CheckProductionNoOp ==
    [][\A d \in Devices, c \in CountInputs :
          ( /\ \/ plans[d] = << >>
               \/ plans[d][1].target_count <= 0
               \/ ~RulesOf(d)[ProductionSlot].enabled
               \/ now - RulesOf(d)[ProductionSlot].last_triggered
                      < RulesOf(d)[ProductionSlot].cooldown
               \/ c < plans[d][1].target_count
            /\ CheckProduction(d, c) )
          => (ret' = << >> /\ cb' = << >> /\ rules'[d] = RulesOf(d))]_vars

\* C15 witness: the production rule was enabled through update_rule while
\* the device has no plan, and a check_production call has just returned
\* nothing.
C15_Witness ==
    \E d \in Devices :
        /\ d \in inited
        /\ plans[d] = << >>
        /\ used.cfg > 0 /\ used.prod > 1
        /\ rules[d][ProductionSlot].enabled
        /\ now - rules[d][ProductionSlot].last_triggered >= rules[d][ProductionSlot].cooldown
        /\ ret = << >> /\ ret_ok = << >> /\ cb = << >>
        /\ status_by[d] = "none" /\ ~plan_fired[d]
        /\ fired_at[d][ProductionSlot] = 0

\* The scheduler's state of device d apart from its rules.
DeviceState(d) ==
    << thresholds[d], plans[d], paused_by_scheduler[d], pause_reasons[d],
       out_of_range[d], history[d] >>

\* No rule of the list rs has the id rule_id.
UnknownRule(rs, rule_id) == \A i \in 1..Len(rs) : rs[i].id # rule_id

\* C16: update_rule with a rule id the device does not have returns False
\* and leaves the rules, thresholds, plan, flags, pause reasons and
\* histories of every device as they were.
C16_UnknownRuleChangesNothing ==
    [][\A d \in Devices, rp \in ConfigPatchInputs :
          (UnknownRule(RulesOf(d), rp[1]) /\ UpdateRuleCall(d, rp[1], rp[2]))
          => /\ ret_ok' = << FALSE >>
             /\ rules'[d] = RulesOf(d)
             /\ \A x \in Devices \ {d} : rules'[x] = rules[x]
             /\ \A x \in Devices : DeviceState(x)' = DeviceState(x)]_vars

\* C16 witness: update_rule has just reported failure for a device whose
\* rules, thresholds and history differ from the defaults.
C16_Witness ==
    \E d \in Devices :
        /\ called = "update_rule" /\ ret_ok = << FALSE >>
        /\ d \in inited
        /\ rules[d] # DefaultRules
        /\ thresholds[d] # DefaultThresholds
        /\ Len(history[d]["temperature"]) > 0

\* C17: update_rule changes neither the id nor the last_triggered of any
\* rule, and leaves every field the patch does not name as it was.
C17_PatchKeepsIdentityAndTimestamp ==
    [][\A d \in Devices, rp \in ConfigPatchInputs :
          UpdateRuleCall(d, rp[1], rp[2])
          => /\ Len(rules'[d]) = Len(RulesOf(d))
             /\ \A i \in 1..Len(RulesOf(d)) :
                   /\ rules'[d][i].id = RulesOf(d)[i].id
                   /\ rules'[d][i].last_triggered = RulesOf(d)[i].last_triggered
                   /\ \A f \in DOMAIN RulesOf(d)[i] \ DOMAIN rp[2] :
                         rules'[d][i][f] = RulesOf(d)[i][f]]_vars

\* C18: a check call flags the reading out of range exactly when it lies
\* outside the threshold_min/threshold_max stored on the metric's rule.
C18_CheckUsesRuleThresholds ==
    [][\A d \in Devices, m \in Metrics : \A value \in Readings[m] :
          CheckCall(d, m, value)
          => \A i \in 1..Len(RulesOf(d)) :
                (RulesOf(d)[i].id = PauseRuleId[m])
                => (out_of_range'[d][m] <=>
                       (value < RulesOf(d)[i].threshold_min \/ value > RulesOf(d)[i].threshold_max))]_vars

\* The bounds of every environmental rule of d equal the bounds the check
\* calls read for its metric.
RulesInSync(d) ==
    \A m \in Metrics : \A i \in 1..Len(rules[d]) :
        (rules[d][i].id = PauseRuleId[m])
        => (rules[d][i].threshold_min = MinOf(d, m) /\ rules[d][i].threshold_max = MaxOf(d, m))

\* C19: update_thresholds leaves the bounds of every environmental rule
\* equal to the bounds the check calls read for the metric, the default for
\* a key the dict lacks; and a check call made while they agree classifies
\* the reading by the rule's bounds.
C19_ThresholdsPushedToRules ==
    [][\A d \in Devices :
          /\ \A t \in ConfigThresholdInputs :
                UpdateThresholdsCall(d, t)
                => /\ RulesInSync(d)'
                   /\ \A m \in Metrics :
                         /\ MinOf(d, m)' = (IF MinKey[m] \in DOMAIN t THEN t[MinKey[m]] ELSE MinDefault[m])
                         /\ MaxOf(d, m)' = (IF MaxKey[m] \in DOMAIN t THEN t[MaxKey[m]] ELSE MaxDefault[m])
          /\ \A m \in Metrics : \A value \in Readings[m] :
                (d \in inited /\ RulesInSync(d) /\ CheckCall(d, m, value))
                => \A i \in 1..Len(rules[d]) :
                      (rules[d][i].id = PauseRuleId[m])
                      => (out_of_range'[d][m] <=>
                             (value < rules[d][i].threshold_min \/ value > rules[d][i].threshold_max))]_vars

\* C19 witness: update_thresholds has just been called with a dict that
\* lacks the humidity keys, after a dict had raised humidityMax and a
\* humidity reading had been taken: the humidity rule is back on the
\* defaults.
C19_Witness ==
    \E d \in Devices :
        /\ called = "update_thresholds"
        /\ "humidityMax" \notin DOMAIN thresholds[d]
        /\ Len(history[d]["humidity"]) > 0 /\ ~out_of_range[d]["humidity"]
        /\ history[d]["humidity"][Len(history[d]["humidity"])] > HumidityMaxDefault
        /\ rules[d][PauseSlot["humidity"]].threshold_max = HumidityMaxDefault
        /\ rules[d][PauseSlot["temperature"]].threshold_max # TempMaxDefault

\* C20: the first init_device call of a device installs the default rules
\* and thresholds and the idle state; a later one changes nothing; and the
\* init_device call inside update_thresholds, update_rule and the check
\* calls leaves an initialised device's state to the operation itself.
C20_InitDeviceIdempotent ==
    [][\A d \in Devices :
          /\ (d \in inited /\ InitDevice(d))
                => (rules'[d] = rules[d] /\ DeviceState(d)' = DeviceState(d))
          /\ (d \notin inited /\ InitDevice(d))
                => /\ rules'[d] = DefaultRules
                   /\ thresholds'[d] = DefaultThresholds
                   /\ ~paused_by_scheduler'[d] /\ pause_reasons'[d] = << >>
                   /\ \A m \in Metrics : ~out_of_range'[d][m] /\ history'[d][m] = << >>
          /\ \A t \in ConfigThresholdInputs :
                (d \in inited /\ UpdateThresholdsCall(d, t))
                => /\ Len(rules'[d]) = Len(rules[d])
                   /\ \A i \in 1..Len(rules[d]) :
                         rules'[d][i] = [rules[d][i] EXCEPT
                                            !.threshold_min = rules'[d][i].threshold_min,
                                            !.threshold_max = rules'[d][i].threshold_max]
                   /\ paused_by_scheduler'[d] = paused_by_scheduler[d]
                   /\ pause_reasons'[d] = pause_reasons[d]
                   /\ out_of_range'[d] = out_of_range[d] /\ history'[d] = history[d]
          /\ \A m \in Metrics : \A value \in Readings[m] :
                (d \in inited /\ CheckCall(d, m, value))
                => /\ thresholds'[d] = thresholds[d]
                   /\ Len(rules'[d]) = Len(rules[d])
                   /\ \A i \in 1..Len(rules[d]) :
                         rules'[d][i] = [rules[d][i] EXCEPT
                                            !.last_triggered = rules'[d][i].last_triggered]
                   /\ \A k \in Metrics \ {m} :
                         history'[d][k] = history[d][k] /\ out_of_range'[d][k] = out_of_range[d][k]]_vars

\* C20 witness: init_device has just been called for a device that was
\* initialised before and whose rules, thresholds, flags, pause state and
\* history had moved away from the defaults.
C20_Witness ==
    \E d \in Devices :
        /\ called = "init_device"
        /\ rules[d] # DefaultRules
        /\ thresholds[d] # DefaultThresholds
        /\ paused_by_scheduler[d] /\ pause_reasons[d] # << >>
        /\ \E m \in Metrics : out_of_range[d][m] /\ Len(history[d][m]) > 0
        /\ \E i \in 1..Len(rules[d]) : rules[d][i].last_triggered = now

\* The device has a plan with a positive target.
PositivePlan(d) == plans[d] # << >> /\ plans[d][1].target_count > 0

\* C26: with a plan of positive target, get_plan_progress reports
\* progress = min(100, 100 * current / target) (held in tenths of a percent),
\* between 0 and 100, not below the progress the previous query of the same
\* plan reported for a count that was not larger, and
\* remaining = max(0, target - current).
C26_ProgressClampedAndMonotone ==
    [][\A d \in Devices, c \in ProgressCounts :
          (PositivePlan(d) /\ GetPlanProgress(d, c) /\ raised' = "")
          => LET t == plans[d][1].target_count
                 r == ret_info'[1]
             IN  /\ r.has_plan
                 /\ r.progress * t = 1000 * (IF c < t THEN c ELSE t)
                 /\ 0 <= r.progress /\ r.progress <= 1000
                 /\ r.remaining = (IF t - c > 0 THEN t - c ELSE 0)
                 /\ (called = "get_plan_progress" /\ ret_info # << >>
                        /\ ret_info[1].has_plan /\ ret_info[1].current <= c)
                     => ret_info[1].progress <= r.progress]_vars

\* C27: for a device without a plan - never set, cleared, or set with a
\* target not above zero - get_plan_progress returns has_plan false,
\* progress 0, remaining 0 and no estimate, whatever the count.
C27_NoPlanProgress ==
    [][\A d \in Devices, c \in ProgressCounts :
          (~PositivePlan(d) /\ GetPlanProgress(d, c))
          => /\ raised' = ""
             /\ ret_info' # << >>
             /\ ~ret_info'[1].has_plan
             /\ ret_info'[1].progress = 0
             /\ ret_info'[1].remaining = 0
             /\ ret_info'[1].estimated_time = << >>]_vars

\* C27 witness: get_plan_progress has just answered "no plan" for a count
\* of 4 while the device holds a plan entry whose target is below zero.
C27_Witness ==
    \E d \in Devices :
        /\ called = "get_plan_progress"
        /\ plans[d] # << >> /\ plans[d][1].target_count < 0
        /\ ret_info # << >> /\ ~ret_info[1].has_plan /\ ret_info[1].current = 4

\* C28: get_plan_progress never raises, and it returns an estimate only
\* when time has passed since the plan started, the count is positive and
\* the target is not reached.
C28_NoDivisionByZero ==
    [][\A d \in Devices, c \in ProgressCounts :
          GetPlanProgress(d, c)
          => /\ raised' = ""
             /\ ret_info' # << >>
             /\ (ret_info'[1].estimated_time # << >>)
                => (now - plans[d][1].start_time > 0 /\ c > 0 /\ c < plans[d][1].target_count)]_vars

\* C29: the last_triggered of a rule never decreases.
C29_LastTriggeredMonotone ==
    [][\A d \in Devices : \A i \in 1..Len(rules[d]) :
          i <= Len(rules'[d]) => rules'[d][i].last_triggered >= rules[d][i].last_triggered]_vars

\* The last n elements of a sequence, all of it if it is shorter.
HistoryCapacity == 5
MostRecent(seq, n) == SubSeq(seq, IF Len(seq) > n THEN Len(seq) - n + 1 ELSE 1, Len(seq))

\* C30: every history holds at most 5 readings; a check call of metric m
\* with a value leaves in the history of m the most recent 5 of the
\* readings it held followed by the value, in that order; and a history
\* changes in no other way.
C30_HistoryHoldsMostRecent ==
    /\ [](\A d \in Devices, m \in Metrics : Len(history[d][m]) <= HistoryCapacity)
    /\ [][\A d \in Devices, m \in Metrics :
            /\ \A value \in Readings[m] :
                  CheckCall(d, m, value)
                  => history'[d][m] = MostRecent(history[d][m] \o << value >>, HistoryCapacity)
            /\ (history'[d][m] # history[d][m])
               => \E value \in Readings[m] :
                     history'[d][m] = MostRecent(history[d][m] \o << value >>, HistoryCapacity)]_vars

\* C30 witness: a temperature pause was emitted, so a reading of 40 was
\* taken, and the temperature history holds five readings of 20 since:
\* the 40 has been evicted.
C30_Witness ==
    \E d \in Devices :
        /\ checked[d]
        /\ fired_at[d][PauseSlot["temperature"]] > 0
        /\ history[d]["temperature"] = << 20, 20, 20, 20, 20 >>

\* C22: when the callback a check call dispatched an action to raises, the
\* call still returns the action, no exception leaves it, and the
\* scheduler's state of every device is what it is when the callback
\* returns normally.
C22_CallbackFailureIsolated ==
    [][\A task \in Tasks :
          (CallbackReturns(task) \/ CallbackRaises(task))
          => /\ raised' = ""
             /\ ret' = << awaiting[task][1].action >>
             /\ \A x \in Devices : rules'[x] = rules[x] /\ DeviceState(x)' = DeviceState(x)]_vars

\* C23: a callback that has not completed keeps no task from having the
\* next reading evaluated: the task that made the call can enter a check
\* call again.
C23_CallbackOffCriticalPath ==
    \A task \in Tasks :
        awaiting[task] # << >>
        => ENABLED (\E d \in Fleet, m \in Metrics : \E value \in Readings[m] :
                        CheckEnter(task, d, m, value))

\* C24: whatever calls are suspended on their callbacks, a check call
\* entered by any task appends its reading to the most recent readings of
\* the metric, sets the flag from its own reading, and hands a pause to the
\* callback only if the flag was clear before and is set after; and a call
\* that resumes writes nothing to the scheduler's state.
C24_CheckCallsSerialized ==
    [][/\ \A task \in Tasks :
            (CallbackReturns(task) \/ CallbackRaises(task))
            => \A x \in Devices : rules'[x] = rules[x] /\ DeviceState(x)' = DeviceState(x)
       /\ \A task \in Tasks, d \in Devices, m \in Metrics : \A value \in Readings[m] :
            CheckEnter(task, d, m, value)
            => /\ history'[d][m] = MostRecent(history[d][m] \o << value >>, HistoryCapacity)
               /\ out_of_range'[d][m] = ~InRange(d, m, value)
               /\ \A k \in Metrics \ {m} :
                     history'[d][k] = history[d][k] /\ out_of_range'[d][k] = out_of_range[d][k]
               /\ (cb' # << >> /\ cb'[1].action.action = "pause")
                  => (~out_of_range[d][m] /\ out_of_range'[d][m])]_vars

\* C24 witness: while the call of one socket is suspended on the callback
\* of its temperature pause, the other socket's call has read the same
\* temperature and returned without an action; both readings are in the
\* history.
C24_Witness ==
    \E d \in Devices :
        /\ awaiting["socket_1"] # << >>
        /\ awaiting["socket_1"][1].device_id = d
        /\ awaiting["socket_1"][1].action.action = "pause"
        /\ awaiting["socket_2"] = << >>
        /\ checked[d] /\ cb = << >>
        /\ history[d]["temperature"] = << 40, 40 >>
        /\ out_of_range[d]["temperature"]

\* C21: every public operation called for a device the scheduler has not
\* seen completes without an exception and leaves the device created, with
\* the five rules of the default list.
C21_UnknownDeviceLazilyCreated ==
    [][\A d \in Devices :
          (d \notin inited /\ (FleetCall(d) \/ NeighbourCall(d)))
          => /\ raised' = ""
             /\ d \in inited'
             /\ Len(rules'[d]) = Len(DefaultRules)
             /\ \A i \in 1..Len(DefaultRules) : rules'[d][i].id = DefaultRules[i].id]_vars

\* C25: an operation on one device leaves the rules, thresholds, plan,
\* flags, pause state and histories of every other device as they were,
\* and creates no other device.
C25_DevicesIndependent ==
    [][\A d \in Devices :
          (FleetCall(d) \/ NeighbourCall(d))
          => \A x \in Devices \ {d} :
                /\ rules'[x] = rules[x]
                /\ DeviceState(x)' = DeviceState(x)
                /\ (x \in inited') <=> (x \in inited)]_vars

\* C25 witness: update_thresholds has just widened the temperature range of
\* one device while another device, paused on a temperature of 40 with the
\* default range, holds a plan and a disabled recovery rule.
C25_Witness ==
    \E d \in Devices, x \in Devices :
        /\ d # x
        /\ called = "update_thresholds"
        /\ thresholds[d] # DefaultThresholds
        /\ thresholds[x] = DefaultThresholds
        /\ paused_by_scheduler[x] /\ out_of_range[x]["temperature"]
        /\ history[x]["temperature"] = << 40 >>
        /\ plans[x] # << >>
        /\ x \in inited /\ ~rules[x][RecoverySlot].enabled

\* C31: get_rules, get_state and get_plan_progress called for a device the
\* scheduler already knows change no rule, threshold, plan, flag, pause
\* state or history of any device, create no device, return no action and
\* invoke no callback.
C31_QueriesArePureReads ==
    [][\A d \in Devices :
          (d \in inited /\ (GetRules(d) \/ GetState(d) \/ \E c \in CountInputs : GetPlanProgress(d, c)))
          => /\ \A x \in Devices : rules'[x] = rules[x] /\ DeviceState(x)' = DeviceState(x)
             /\ inited' = inited
             /\ ret' = << >> /\ cb' = << >>]_vars

\* C31 witness: get_state has just reported a device that is paused on an
\* out-of-range temperature, holds a plan, and has a patched rule and
\* patched thresholds.
C31_Witness ==
    \E d \in Devices :
        /\ called = "get_state"
        /\ ret_info # << >>
        /\ ret_info[1].paused_by_scheduler /\ ret_info[1].pause_reasons # << >>
        /\ ret_info[1].current_status["temperature"]
        /\ ret_info[1].plan.target_count > 0
        /\ ret_info[1].rules = rules[d] /\ rules[d] # DefaultRules
        /\ thresholds[d] # DefaultThresholds
        /\ paused_by_scheduler[d] /\ history[d]["temperature"] # << >>

\* The pause rule of metric m is disabled, or its cooldown, measured from
\* its last_triggered, has not elapsed.
PauseRuleGated(d, m) ==
    LET rule == IF d \in inited THEN rules[d][PauseSlot[m]] ELSE DefaultRules[PauseSlot[m]]
    IN  ~rule.enabled \/ now - rule.last_triggered < rule.cooldown

C32_WitnessFlagged ==
    \E d \in Devices :
        /\ checked[d] /\ OnlyMetricRead(d, "temperature")
        /\ d \in inited /\ ~rules[d][PauseSlot["temperature"]].enabled
        /\ history[d]["temperature"] = << 40, 20, 40 >>
        /\ out_of_range[d]["temperature"] /\ paused_by_scheduler[d]
        /\ ret = << >> /\ cb = << >>

\* The sequence seq holds the element e.
Holds(seq, e) == \E k \in 1..Len(seq) : seq[k] = e

C33_WitnessStart ==
    \E d \in Devices :
        /\ checked[d] /\ ~paused_by_scheduler[d] /\ pause_reasons[d] = << >>
        /\ cb # << >> /\ cb[1].action.action = "start"
        /\ rules[d][RecoverySlot].last_triggered = now

\* C33 witness of the collaborator's way back.
C33_WitnessCleared ==
    \E d \in Devices :
        /\ called = "clear_scheduler_pause" /\ ~paused_by_scheduler[d]
        /\ pause_reasons[d] = << >> /\ out_of_range[d]["temperature"]
        /\ d \in inited /\ rules[d][PauseSlot["temperature"]].last_triggered = now

\* C34: whenever a check call of a device has just returned and a metric's
\* out_of_range flag is set while the pause rule of that metric is enabled,
\* paused_by_scheduler of the device is true (no clear_scheduler_pause and no
\* update_rule call is ever made).
C34_ExcursionsAreCovered ==
    \A d \in Devices, m \in Metrics :
        (checked[d] /\ d \in inited /\ out_of_range[d][m] /\ rules[d][PauseSlot[m]].enabled)
        => paused_by_scheduler[d]

\* C34, the part about persistence: the same for a check that returns after
\* the cooldown of the metric's pause rule has elapsed.
C34_CoveredPastCooldown ==
    \A d \in Devices, m \in Metrics :
        ( /\ checked[d] /\ d \in inited /\ out_of_range[d][m]
          /\ rules[d][PauseSlot[m]].enabled
          /\ now - rules[d][PauseSlot[m]].last_triggered >= rules[d][PauseSlot[m]].cooldown )
        => paused_by_scheduler[d]

\* C35: for every initialized device, pause_reasons is non-empty exactly
\* when paused_by_scheduler is true, and no reason occurs twice in it.
C35_ReasonsMatchPause ==
    \A d \in inited :
        /\ pause_reasons[d] # << >> <=> paused_by_scheduler[d]
        /\ \A j, k \in 1..Len(pause_reasons[d]) :
              pause_reasons[d][j] = pause_reasons[d][k] => j = k

\* C35 witness: the check that has just returned paused the device for a
\* temperature reason that was already the first of two recorded reasons:
\* the same excursion fired again after the cooldown and was not recorded
\* a second time.
C35_Witness ==
    \E d \in inited :
        /\ checked[d] /\ paused_by_scheduler[d]
        /\ cb # << >> /\ cb[1].action.action = "pause"
        /\ cb[1].action.param_type = "temperature"
        /\ Len(pause_reasons[d]) = 2
        /\ pause_reasons[d][1] = cb[1].action.reason

\* The rule with its two bounds blanked.
WithoutBounds(rule) == [rule EXCEPT !.threshold_min = 0, !.threshold_max = 0]

\* C36: update_thresholds leaves the flags, histories, paused_by_scheduler,
\* pause_reasons and plan of the device as they were, changes no field of a
\* rule other than threshold_min and threshold_max, changes those of the
\* three environmental rules only, returns no action and invokes no
\* callback.
C36_UpdateThresholdsFrame ==
    [][\A d \in Devices, t \in ThresholdInputs :
          UpdateThresholdsCall(d, t)
          => /\ out_of_range'[d] = out_of_range[d]
             /\ history'[d] = history[d]
             /\ paused_by_scheduler'[d] = paused_by_scheduler[d]
             /\ pause_reasons'[d] = pause_reasons[d]
             /\ plans'[d] = plans[d]
             /\ Len(rules'[d]) = Len(RulesOf(d))
             /\ \A i \in 1..Len(RulesOf(d)) :
                   /\ WithoutBounds(rules'[d][i]) = WithoutBounds(RulesOf(d)[i])
                   /\ (\A m \in Metrics : RulesOf(d)[i].id # PauseRuleId[m])
                      => rules'[d][i] = RulesOf(d)[i]
             /\ ret' = << >> /\ cb' = << >>]_vars

\* C36 witness: update_thresholds has just widened the temperature range to
\* 45 on a device that a temperature of 40 had paused and that holds a
\* plan: the flag, the reason and the rule's timestamp are still there
\* although 40 is now within the range.
C36_Witness ==
    \E d \in inited :
        /\ called = "update_thresholds"
        /\ MaxOf(d, "temperature") = 45
        /\ rules[d][PauseSlot["temperature"]].threshold_max = 45
        /\ history[d]["temperature"] = << 40 >> /\ out_of_range[d]["temperature"]
        /\ paused_by_scheduler[d] /\ pause_reasons[d] # << >>
        /\ rules[d][PauseSlot["temperature"]].last_triggered > 0
        /\ plans[d] # << >>

\* C37: a check_production call made right after set_production_plan set a
\* plan with a positive target, with a count that reaches the target,
\* returns the completion action and hands it to the callback, whenever the
\* production rule last fired.
C37_FreshPlanFires ==
    [][\A d \in Devices, c \in CountInputs :
          ( /\ called = "set_production_plan" /\ PositivePlan(d)
            /\ c >= plans[d][1].target_count
            /\ CheckProduction(d, c) )
          => (ret' # << >> /\ cb' # << >>)]_vars

\* C38: a check call hands at most one action to the callback, for its own
\* device; a call that handed none returns no action; and a call that
\* handed one returns exactly that action when the callback completes.
C38_OneActionReturnedAsDispatched ==
    [][/\ \A task \in Tasks, d \in Devices, m \in Metrics : \A value \in Readings[m] :
            CheckEnter(task, d, m, value)
            => /\ Len(cb') <= 1
               /\ cb' # << >> => cb'[1].device_id = d
               /\ awaiting'[task] = cb'
               /\ ret' = << >>
       /\ \A task \in Tasks :
            (CallbackReturns(task) \/ CallbackRaises(task))
            => ret' = << awaiting[task][1].action >>]_vars

====
